---- MODULE Spec2Model ----
(***************************************************************************)
(* Model of streamlit_app.py: the header cleaner (_clean_col), the cell    *)
(* coercers (_to_number, _coerce_percent), the pipeline prep_df and the    *)
(* module-level call site that gates prep_df on an empty input.            *)
(*                                                                         *)
(* Numbers.  A float is held as an integer count of 1/One (One = 10000),   *)
(* so 0.05 is 500 and 1.0 is 10000; arithmetic is exact on the inputs the  *)
(* specifications draw (at most two decimals before a division by 100).    *)
(* The inputs are finite numbers: the text alphabet has no exponent, no    *)
(* underscore and no letters of "inf", so float() never returns +-inf.     *)
(* Text is a sequence of one-character strings, so that strip, replace     *)
(* and float parsing are computed and not assumed.                         *)
(***************************************************************************)
EXTENDS Integers, Sequences, FiniteSets, TLC

VARIABLES pc, raw_cols, clean_cols, series, coerced, df_raw, df, outcome

vars == <<pc, raw_cols, clean_cols, series, coerced, df_raw, df, outcome>>

\* ---------------------------------------------------------------- bounds
MaxHeaders == 3
MaxSeries == 3
MaxDeltaCols == 4
MaxKeywordRows == 3
MaxFillerRows == 1
MaxScoreRows == 2

\* ---------------------------------------------------------------- values
\* The float 1.0 in the fixed-point representation.
One == 10000

\* Python None (a header, or df_raw before any load).
None == [t |-> "none"]

\* np.nan / a missing cell.
NaN == [t |-> "nan"]

\* A float cell; v counts 1/One.
Num(v) == [t |-> "num", v |-> v]

\* A text cell or header; s is its sequence of characters.
Str(s) == [t |-> "str", s |-> s]

\* Any other Python object held in a column (a bucket label, an action text).
Obj(x) == [t |-> "obj", s |-> x]

IsNum(x) == x.t = "num"

\* pd.isna on a scalar.
IsNa(x) == x.t = "nan"

Range(f) == {f[i] : i \in DOMAIN f}

\* ---------------------------------------------------------------- text
Whitespace == {" ", "\n", "\t"}

Digits == <<"0", "1", "2", "3", "4", "5", "6", "7", "8", "9">>

IsDigit(c) == \E i \in 1..10 : Digits[i] = c

DigitVal(c) == (CHOOSE i \in 1..10 : Digits[i] = c) - 1

RECURSIVE LStrip(_)
LStrip(s) ==
    IF s # <<>> /\ Head(s) \in Whitespace THEN LStrip(Tail(s)) ELSE s

RECURSIVE RStrip(_)
RStrip(s) ==
    IF s # <<>> /\ s[Len(s)] \in Whitespace
    THEN RStrip(SubSeq(s, 1, Len(s) - 1)) ELSE s

\* str.strip()
Strip(s) == RStrip(LStrip(s))

StartsWith(s, p) == Len(p) <= Len(s) /\ SubSeq(s, 1, Len(p)) = p

\* str.replace(old, new): every non-overlapping occurrence, left to right.
RECURSIVE Replace(_, _, _)
Replace(s, old, new) ==
    IF s = <<>> THEN <<>>
    ELSE IF StartsWith(s, old)
         THEN new \o Replace(SubSeq(s, Len(old) + 1, Len(s)), old, new)
         ELSE <<Head(s)>> \o Replace(Tail(s), old, new)

\* re.sub(r"\s+", " ", s): each maximal run of whitespace becomes one space.
RECURSIVE CollapseWs(_)
CollapseWs(s) ==
    IF s = <<>> THEN <<>>
    ELSE IF Head(s) \in Whitespace
         THEN <<" ">> \o CollapseWs(LStrip(s))
         ELSE <<Head(s)>> \o CollapseWs(Tail(s))

\* ---------------------------------------------------------------- float()
RECURSIVE DigitsVal(_)
DigitsVal(s) ==
    IF s = <<>> THEN 0
    ELSE DigitsVal(SubSeq(s, 1, Len(s) - 1)) * 10 + DigitVal(s[Len(s)])

\* The fraction digits d1 d2 d3 d4 as a count of 1/One (further digits are
\* below the resolution).
FracVal(s) ==
    LET d(i) == IF i <= Len(s) THEN DigitVal(s[i]) ELSE 0
    IN  d(1) * 1000 + d(2) * 100 + d(3) * 10 + d(4)

AllDigits(s) == \A i \in 1..Len(s) : IsDigit(s[i])

ParseUnsigned(s) ==
    LET dots == {i \in 1..Len(s) : s[i] = "."}
    IN  IF Cardinality(dots) > 1 THEN NaN
        ELSE LET p  == IF dots = {} THEN Len(s) + 1 ELSE CHOOSE i \in dots : TRUE
                 ip == SubSeq(s, 1, p - 1)
                 fp == SubSeq(s, p + 1, Len(s))
             IN  IF AllDigits(ip) /\ AllDigits(fp) /\ Len(ip) + Len(fp) > 0
                 THEN Num(DigitsVal(ip) * One + FracVal(fp))
                 ELSE NaN

\* float(s) inside try/except: the parsed number, or NaN where float() raises
\* (and for the text "nan", which float() parses as NaN).
ParseFloat(s) ==
    LET u == Strip(s)
    IN  IF u = <<>> THEN NaN
        ELSE IF Head(u) = "-"
             THEN LET r == ParseUnsigned(Tail(u))
                  IN  IF IsNum(r) THEN Num(0 - r.v) ELSE NaN
             ELSE IF Head(u) = "+" THEN ParseUnsigned(Tail(u))
             ELSE ParseUnsigned(u)

RemoveCommas(s) == SelectSeq(s, LAMBDA c : c # ",")

\* x / 100.0
Div100(x) == IF IsNum(x) THEN Num(x.v \div 100) ELSE x

\* ---------------------------------------------------------------- _to_number
ToNumber(x) ==
    IF IsNa(x) THEN NaN
    ELSE IF IsNum(x) THEN x
    ELSE LET s == Strip(x.s)
         IN  IF s = <<>> THEN NaN
             ELSE IF s[Len(s)] = "%"
                  THEN Div100(ParseFloat(RemoveCommas(SubSeq(s, 1, Len(s) - 1))))
                  ELSE ParseFloat(RemoveCommas(s))

\* ---------------------------------------------------------------- _coerce_percent
\* series.apply(f)
Apply(s, F(_)) == [i \in 1..Len(s) |-> F(s[i])]

\* The finite values of a series, as a sequence.
Finite(s) == SelectSeq(s, IsNum)

\* The k-th smallest of a non-empty sequence of numbers.
Kth(v, k) ==
    CHOOSE x \in {v[i].v : i \in 1..Len(v)} :
        /\ Cardinality({i \in 1..Len(v) : v[i].v < x}) < k
        /\ k <= Cardinality({i \in 1..Len(v) : v[i].v <= x})

\* Twice np.nanmedian of a series with at least one finite value.
Median2(s) ==
    LET v == Finite(s)
        n == Len(v)
    IN  IF n % 2 = 1 THEN 2 * Kth(v, (n + 1) \div 2)
        ELSE Kth(v, n \div 2) + Kth(v, n \div 2 + 1)

\* Mutant of MedianAboveOne: the test written med >= 1.0.
MedianAtLeastOne(s) == Finite(s) # <<>> /\ Median2(s) >= 2 * One

\* med > 1.0, where med is NaN for a series without finite values.
MedianAboveOne(s) == Finite(s) # <<>> /\ Median2(s) > 2 * One

CoercePercent(ser) ==
    LET s == Apply(ser, ToNumber)
    IN  IF MedianAboveOne(s) THEN Apply(s, Div100) ELSE s

\* ---------------------------------------------------------------- _clean_col
\* Whether the name re is bound at module level: the imports are io, math,
\* pandas, numpy and streamlit.
ReImported == FALSE

\* The exception an unbound global name raises.
NameError == [t |-> "raise", s |-> "NameError"]

OurConversionRate ==
    <<"O", "u", "r", " ", "C", "o", "n", "v", "e", "r", "s", "i", "o", "n",
      " ", "R", "a", "t", "e">>

AddToCartAsinShare ==
    <<"A", "d", "d", " ", "t", "o", " ", "C", "a", "r", "t", " ", "-", " ",
      "A", "S", "I", "N", " ", "S", "h", "a", "r", "e">>

\* The replacements after re.sub; those of lines 88-93 replace a text by
\* itself and change nothing.
FixTypos(c) ==
    Replace(Replace(c, OurConversionRate \o <<" ">>, OurConversionRate),
            AddToCartAsinShare \o <<" ">>, AddToCartAsinShare)

CleanCol(c) ==
    IF c = None THEN Str(<<>>)
    ELSE LET c1 == Strip(c.s)
             c2 == Replace(c1, <<"\n">>, <<" ">>)
         IN  IF ~ReImported THEN NameError
             ELSE Str(FixTypos(CollapseWs(c2)))

\* [_clean_col(c) for c in columns]: the list, or the first exception raised.
CleanAll(cols) ==
    LET r == Apply(cols, CleanCol)
    IN  IF \E i \in 1..Len(r) : r[i].t = "raise"
        THEN r[CHOOSE i \in 1..Len(r) :
                 r[i].t = "raise" /\ \A k \in 1..(i - 1) : r[k].t # "raise"]
        ELSE Obj(r)

\* ---------------------------------------------------------------- DataFrame
\* A DataFrame: its column labels, its row labels and one series per column.
Frame(columns, index, data) ==
    [t |-> "frame", columns |-> columns, index |-> index, data |-> data]

NRows(d) == Len(d.index)

HasCol(d, c) == \E j \in 1..Len(d.columns) : d.columns[j] = c

ColPos(d, c) ==
    CHOOSE j \in 1..Len(d.columns) :
        d.columns[j] = c /\ \A k \in 1..(j - 1) : d.columns[k] # c

Column(d, c) == d.data[ColPos(d, c)]

\* pd.Series(np.nan, index=df.index), and the broadcast of the scalar np.nan.
NaNs(d) == [i \in 1..NRows(d) |-> NaN]

\* df.get(c, np.nan)
Get(d, c) == IF HasCol(d, c) THEN Column(d, c) ELSE NaNs(d)

\* df[c] = s
SetCol(d, c, s) ==
    IF HasCol(d, c) THEN [d EXCEPT !.data[ColPos(d, c)] = s]
    ELSE [d EXCEPT !.columns = Append(@, c), !.data = Append(@, s)]

\* The entries of s at the positions in keep, in order.
RECURSIVE Sel(_, _)
Sel(s, keep) ==
    IF s = <<>> THEN <<>>
    ELSE Sel(SubSeq(s, 1, Len(s) - 1), keep)
         \o (IF Len(s) \in keep THEN <<s[Len(s)]>> ELSE <<>>)

\* df[mask]
Take(d, keep) ==
    Frame(d.columns, Sel(d.index, keep),
          [j \in 1..Len(d.columns) |-> Sel(d.data[j], keep)])

\* df.empty: some axis has length 0.
Empty(d) == Len(d.columns) = 0 \/ Len(d.index) = 0

\* ---------------------------------------------------------------- column lists
PCT_COLS_CANON ==
    {"Our Conversion Rate", "Market Conversion Rate",
     "Our Click Through Rate", "Market Click Through Rate"}

NUM_COLS_CANON ==
    {"Impressions: ASIN Count", "Impressions: Total Count",
     "Clicks: ASIN Count", "Clicks: Total Count",
     "Cart Adds: ASIN Count", "Cart Adds: Total Count",
     "Purchases: ASIN Count", "Purchases: Total Count"}

SHARE_COLS_CANON ==
    {"Impressions - ASIN Share", "Clicks - ASIN Share",
     "Add to Cart - ASIN Share", "Purchases - ASIN Share"}

FunnelDeltaCols ==
    {"Delta - Impressions to Clicks", "Delta - Clicks to Add to Cart",
     "Delta - Add to Cart to Purchases"}

\* ---------------------------------------------------------------- prep_df
MinOf(S) == CHOOSE x \in S : \A y \in S : x <= y

MaxOf(S) == CHOOSE x \in S : \A y \in S : x >= y

\* Mutant of RenameDelta: the pair renamed only when there are exactly two.
RenameDeltaExactlyTwo(cols) ==
    LET delta_idx == {i \in 1..Len(cols) : cols[i] = "Delta"}
        first     == MinOf(delta_idx)
        second    == MinOf(delta_idx \ {first})
    IN  IF Cardinality(delta_idx) = 2
        THEN [cols EXCEPT ![first] = "Delta (CR)", ![second] = "Delta (CTR)"]
        ELSE IF Cardinality(delta_idx) = 1
             THEN [cols EXCEPT ![first] = "Delta (CR)"]
             ELSE cols

\* Fix duplicate "Delta" columns by position.
RenameDelta(cols) ==
    LET delta_idx == {i \in 1..Len(cols) : cols[i] = "Delta"}
        first     == MinOf(delta_idx)
        second    == MinOf(delta_idx \ {first})
    IN  IF Cardinality(delta_idx) >= 2
        THEN [cols EXCEPT ![first] = "Delta (CR)", ![second] = "Delta (CTR)"]
        ELSE IF Cardinality(delta_idx) = 1
             THEN [cols EXCEPT ![first] = "Delta (CR)"]
             ELSE cols

\* The four coercion loops; each canonical label names at most one column.
CoerceColumns(d) ==
    [d EXCEPT !.data =
        [j \in 1..Len(d.columns) |->
            IF d.columns[j] \in PCT_COLS_CANON \cup {"Delta (CR)", "Delta (CTR)"}
                                \cup SHARE_COLS_CANON \cup FunnelDeltaCols
            THEN CoercePercent(d.data[j])
            ELSE IF d.columns[j] \in NUM_COLS_CANON
                 THEN Apply(d.data[j], ToNumber)
                 ELSE d.data[j]]]

\* astype(str) of a keyword cell: text stays, a missing cell prints as nan.
AsStr(x) == IF IsNa(x) THEN <<"n", "a", "n">> ELSE x.s

\* The row positions the keyword filter keeps.
KeptRows(kw) ==
    {i \in 1..Len(kw) : kw[i].s # <<>> /\ kw[i].s # <<"n", "a", "n">>}

\* Drop empty keywords.
DropEmptyKeywords(d) ==
    IF HasCol(d, "Keyword")
    THEN LET kw == Apply(Column(d, "Keyword"), LAMBDA x : Str(Strip(AsStr(x))))
         IN  Take(SetCol(d, "Keyword", kw), KeptRows(kw))
    ELSE d

\* Impressions total, or clicks total when that is all missing.
MarketDemand(d) ==
    LET a == Get(d, "Impressions: Total Count")
    IN  IF \A i \in 1..Len(a) : IsNa(a[i])
        THEN Get(d, "Clicks: Total Count") ELSE a

\* a - b on floats: NaN when either side is NaN.
Sub(a, b) == IF IsNum(a) /\ IsNum(b) THEN Num(a.v - b.v) ELSE NaN

SubSeries(a, b) == [i \in 1..Len(a) |-> Sub(a[i], b[i])]

\* fillna(0).clip(lower=0), as a count of 1/One
Clip0(x) == IF IsNum(x) /\ x.v > 0 THEN x.v ELSE 0

\* ln 2 as a count of 1/One.
Ln2 == 6931

RECURSIVE Halvings(_)
Halvings(y) == IF y < 2 * One THEN 0 ELSE 1 + Halvings(y \div 2)

\* np.log1p(x) for x >= 0, both as counts of 1/One: 1 + x = m * 2^k with
\* 1 <= m < 2 and ln m = 2 atanh((m - 1) / (m + 1)).
Log1p(x) ==
    LET y  == One + x
        k  == Halvings(y)
        m  == y \div (2 ^ k)
        z  == ((m - One) * One) \div (m + One)
        z2 == (z * z) \div One
        t3 == (z * z2) \div One
        t5 == (t3 * z2) \div One
        t7 == (t5 * z2) \div One
    IN  k * Ln2 + 2 * (z + t3 \div 3 + t5 \div 5 + t7 \div 7)

\* Mutant of DemandScore: the division by the maximum left out.
DemandScoreUnscaled(md) == [i \in 1..Len(md) |-> Num(Log1p(Clip0(md[i])))]

\* Normalize demand: log scale, then divided by the maximum when it is > 0.
DemandScore(md) ==
    LET l  == [i \in 1..Len(md) |-> Log1p(Clip0(md[i]))]
        mx == MaxOf(Range(l))
    IN  IF Len(md) > 0 /\ mx > 0
        THEN [i \in 1..Len(md) |-> Num((l[i] * One) \div mx)]
        ELSE [i \in 1..Len(md) |-> Num(l[i])]

\* Mutant of Pos: np.maximum(x, 0) left out.
PosSigned(x) == IF IsNa(x) THEN 0 ELSE x.v

\* pos(x): 0 for NaN, else max(x, 0); a count of 1/One.
Pos(x) == IF IsNa(x) THEN 0 ELSE IF x.v > 0 THEN x.v ELSE 0

\* The weighted sum, then fillna(0).  With the weights .55 .20 .15 .10 taken
\* as 55 20 15 10 the score is a count of 1/(100 * One).
Score(ds, cg, vg, sg) ==
    IF IsNa(ds) THEN Num(0)
    ELSE Num(55 * ds.v + 20 * Pos(cg) + 15 * Pos(vg) + 10 * Pos(sg))

\* Mutant of Lt: the operands passed through fillna(0) first.
LtFillZero(a, b) ==
    (IF IsNum(a) THEN a.v ELSE 0) < (IF IsNum(b) THEN b.v ELSE 0)

\* Float comparisons: False when either side is NaN.
Lt(a, b) == IsNum(a) /\ IsNum(b) /\ a.v < b.v

Gt(a, b) == IsNum(a) /\ IsNum(b) /\ a.v > b.v

Ge(a, b) == IsNum(a) /\ IsNum(b) /\ a.v >= b.v

\* x * (w / 100), scaled by 100: compared against Times(y, 100).
Times(x, w) == IF IsNum(x) THEN Num(x.v * w) ELSE NaN

\* c as a float, for c hundredths.
Hundredths(c) == Num(c * (One \div 100))

Rule2(ds, imp, clk, pur) ==
    Gt(ds, Hundredths(55)) /\ Gt(imp, Num(0))
    /\ Lt(Times(clk, 100), Times(imp, 85))

Rule3(ds, imp, clk, pur) ==
    Gt(ds, Hundredths(35)) /\ Gt(clk, Num(0))
    /\ Lt(Times(pur, 100), Times(clk, 75))

Rule4(ds, imp, clk, pur) ==
    Gt(ds, Hundredths(35)) /\ Ge(Times(pur, 100), Times(clk, 95))
    /\ Lt(imp, Hundredths(6))

\* Mutant of Rule5: the impressions-share threshold 0.08 written 0.05.
Rule5Loose(ds, imp, clk, pur) ==
    Ge(imp, Hundredths(5)) /\ Ge(pur, Hundredths(6))

Rule5(ds, imp, clk, pur) ==
    Ge(imp, Hundredths(8)) /\ Ge(pur, Hundredths(6))

\* Mutant of Bucket: the first matching rule kept instead of the last.
BucketFirstMatch(ds, imp, clk, pur) ==
    IF Rule2(ds, imp, clk, pur) THEN "Ranking Opportunity"
    ELSE IF Rule3(ds, imp, clk, pur) THEN "Conversion Problem"
    ELSE IF Rule4(ds, imp, clk, pur) THEN "PPC Scaling Opportunity"
    ELSE IF Rule5(ds, imp, clk, pur) THEN "Defend Position"
    ELSE "Ignore / Low Signal"

\* The four df.loc assignments over the default, in source order.
Bucket(ds, imp, clk, pur) ==
    LET b1 == "Ignore / Low Signal"
        b2 == IF Rule2(ds, imp, clk, pur) THEN "Ranking Opportunity" ELSE b1
        b3 == IF Rule3(ds, imp, clk, pur) THEN "Conversion Problem" ELSE b2
        b4 == IF Rule4(ds, imp, clk, pur) THEN "PPC Scaling Opportunity" ELSE b3
    IN  IF Rule5(ds, imp, clk, pur) THEN "Defend Position" ELSE b4

\* action(row), by its first words.
Action(b) ==
    IF b = "Ranking Opportunity" THEN "Launch/expand Exact + POE rank"
    ELSE IF b = "Conversion Problem" THEN "Fix listing first"
    ELSE IF b = "PPC Scaling Opportunity" THEN "Scale PPC deliberately"
    ELSE IF b = "Defend Position" THEN "Defend"
    ELSE "Ignore for now"

DerivedColumns ==
    <<"Market_Demand", "ClickGap", "ConvGap", "ShareGap_Clicks",
      "ShareGap_Purchases", "DemandScore", "OpportunityScore", "Bucket",
      "Suggested Action">>

\* df[names[k]] = values[k] for each k: a column of that label is replaced
\* where it stands, a new label is appended.
Assign(d, names, values) ==
    LET added == SelectSeq(names, LAMBDA c : ~HasCol(d, c))
        cols  == d.columns \o added
        pos(c) == CHOOSE k \in 1..Len(names) : names[k] = c
    IN  Frame(cols, d.index,
              [j \in 1..Len(cols) |->
                  IF \E k \in 1..Len(names) : names[k] = cols[j]
                  THEN values[pos(cols[j])] ELSE d.data[j]])

\* F at the value of x, x evaluated once.
Bind(x, F(_)) == CHOOSE r \in {F(v) : v \in {x}} : TRUE

\* The derived columns, lines 193-248, on the filtered frame.
Derive(d) ==
    LET n   == NRows(d)
        md  == MarketDemand(d)
        cg  == SubSeries(Get(d, "Market Click Through Rate"),
                         Get(d, "Our Click Through Rate"))
        vg  == SubSeries(Get(d, "Market Conversion Rate"),
                         Get(d, "Our Conversion Rate"))
        sc  == SubSeries(Get(d, "Clicks - ASIN Share"),
                         Get(d, "Impressions - ASIN Share"))
        sp  == SubSeries(Get(d, "Purchases - ASIN Share"),
                         Get(d, "Clicks - ASIN Share"))
        imp == Get(d, "Impressions - ASIN Share")
        clk == Get(d, "Clicks - ASIN Share")
        pur == Get(d, "Purchases - ASIN Share")
    IN  Bind(DemandScore(md), LAMBDA ds :
        Bind([i \in 1..n |-> Obj(Bucket(ds[i], imp[i], clk[i], pur[i]))], LAMBDA bk :
        Bind(<<md, cg, vg, sc, sp, ds,
               [i \in 1..n |-> Score(ds[i], cg[i], vg[i], sp[i])],
               bk,
               [i \in 1..n |-> Obj(Action(bk[i].s))]>>, LAMBDA values :
        Assign(d, DerivedColumns, values))))

\* prep_df(df) when it returns.
PrepDf(d) ==
    Bind(CoerceColumns([d EXCEPT !.columns = RenameDelta(d.columns)]), LAMBDA c :
    Bind(DropEmptyKeywords(c), Derive))

\* What df.apply(action, axis=1) makes of a frame without rows depends on the
\* installed pandas: it returns the frame itself, and assigning a frame to
\* the single column "Suggested Action" is refused with a ValueError by some
\* releases and accepted by others.
ValueError == [t |-> "raise", s |-> "ValueError"]

\* The results prep_df(d) can have: the frame, or the exception raised.
PrepDfResults(d) ==
    LET r == PrepDf(d)
    IN  IF NRows(r) = 0 THEN {r, ValueError} ELSE {r}

\* ---------------------------------------------------------------- inputs
\* Sequences over S of length lo..hi.
Seqs(S, lo, hi) == UNION {[1..n -> S] : n \in lo..hi}

\* Raw headers as a file gives them.
HeaderSamples ==
    {None,
     Str(<<"D", "e", "l", "t", "a">>),
     Str(<<" ", "K", "e", "y", "w", "o", "r", "d", "\n">>),
     Str(<<"C", "l", "i", "c", "k", "s", ":", "\n", " ", "T", "o", "t", "a", "l">>),
     Str(OurConversionRate \o <<" ", " ", "%">>)}

\* Raw cells of a rate, share or delta column.
PercentCellSamples ==
    {NaN, Num(5000), Num(One), Num(15000), Num(30000), Num(0 - 20000),
     Str(<<"2", "5", "0", "%">>), Str(<<" ", "1", ",", "2", "0", "0", " ">>),
     Str(<<"1", ".", "5">>), Str(<<"n", "/", "a">>)}

\* Raw cells of the Keyword column.
KeywordSamples ==
    {NaN, Str(<<>>), Str(<<" ", " ">>), Str(<<"n", "a", "n">>),
     Str(<<" ", "n", "a", "n", "\t">>), Str(<<"N", "a", "N">>),
     Str(<<" ", "a", " ", "b", " ">>), Str(<<"a", "b">>)}

\* Frames of 0..maxRows rows, with or without a Keyword column.
KeywordFrames(maxRows) ==
    {Frame(<<"Keyword", "Clicks: Total Count">>, [i \in 1..Len(kw) |-> i],
           <<kw, [i \in 1..Len(kw) |-> Num(i * One)]>>) :
        kw \in Seqs(KeywordSamples, 0, maxRows)}
    \cup
    {Frame(<<"Clicks: Total Count">>, [i \in 1..n |-> i],
           <<[i \in 1..n |-> Num(i * One)]>>) : n \in 0..maxRows}
    \cup {Frame(<<>>, <<>>, <<>>)}

\* One-row frames over header lists with any number of "Delta" columns.
DeltaCell(c) ==
    IF c = "Delta" THEN Str(<<"5", "%">>)
    ELSE IF c = "Keyword" THEN Str(<<"k">>) ELSE Str(<<"B", "0", "1">>)

DeltaFrames(maxCols) ==
    {Frame(cols, <<1>>, [j \in 1..Len(cols) |-> <<DeltaCell(cols[j])>>]) :
        cols \in {c \in Seqs({"Keyword", "Delta", "ASIN"}, 1, maxCols) :
                     Cardinality({j \in 1..Len(c) : c[j] = "Keyword"}) <= 1}}

\* Share cells, as fractions.
ShareSamples ==
    {NaN, Num(0), Hundredths(4), Hundredths(5), Hundredths(6), Hundredths(8),
     Hundredths(10)}

DemandSamples == {NaN, Num(0), Num(One), Num(5 * One), Num(100 * One)}

ShareColumnSets ==
    {{"Impressions - ASIN Share", "Clicks - ASIN Share", "Purchases - ASIN Share"},
     {"Impressions - ASIN Share", "Clicks - ASIN Share"},
     {"Purchases - ASIN Share"},
     {}}

\* Rows after the first: [demand, impressions share, clicks share, purchases share].
FillerRows ==
    {<<Num(100 * One), NaN, NaN, NaN>>,
     <<Num(One), Hundredths(10), Hundredths(10), Hundredths(6)>>}

ShareOrder ==
    <<"Impressions - ASIN Share", "Clicks - ASIN Share", "Purchases - ASIN Share">>

\* The frame of rows [demand, imp, clk, pur] restricted to the share columns
\* in present.
BucketFrame(rows, present) ==
    LET n    == Len(rows)
        keep == SelectSeq(<<1, 2, 3>>, LAMBDA k : ShareOrder[k] \in present)
    IN  Frame(<<"Keyword", "Impressions: Total Count">>
                  \o [j \in 1..Len(keep) |-> ShareOrder[keep[j]]],
              [i \in 1..n |-> i],
              <<[i \in 1..n |-> Str(<<"k">>)], [i \in 1..n |-> rows[i][1]]>>
                  \o [j \in 1..Len(keep) |-> [i \in 1..n |-> rows[i][keep[j] + 1]]])

\* First rows: any demand, and a share sample for each column present.
FirstRows(present) ==
    {x \in [1..4 -> ShareSamples \cup DemandSamples] :
        /\ x[1] \in DemandSamples
        /\ \A k \in 1..3 :
              IF ShareOrder[k] \in present THEN x[k + 1] \in ShareSamples
              ELSE x[k + 1] = NaN}

BucketFrames(maxFiller) ==
    UNION {{BucketFrame(<<r>> \o f, present) :
               r \in FirstRows(present), f \in Seqs(FillerRows, 0, maxFiller)} :
           present \in ShareColumnSets}

\* Rate and share cells of one row: market CTR, our CTR, market CR, our CR,
\* clicks share, purchases share.
GapProfiles ==
    {<<NaN, NaN, NaN, NaN, NaN, NaN>>,
     <<Hundredths(5), Hundredths(2), Hundredths(10), Hundredths(4),
       Hundredths(6), Hundredths(10)>>,
     <<Hundredths(2), Hundredths(5), NaN, Hundredths(4),
       Hundredths(10), Hundredths(6)>>,
     <<Str(<<"5", "%">>), Str(<<"2", "%">>), Hundredths(10), Hundredths(10),
       NaN, Hundredths(6)>>}

ImpressionsSamples ==
    {NaN, Num(0 - 3 * One), Num(7 * One), Str(<<"1", ",", "2", "0", "0">>)}

ClicksSamples == {NaN, Num(2 * One)}

ScoreColumns ==
    <<"Market Click Through Rate", "Our Click Through Rate",
      "Market Conversion Rate", "Our Conversion Rate",
      "Clicks - ASIN Share", "Purchases - ASIN Share">>

\* Rows are <<impressions total, clicks total, gap profile>>.
ScoreFrame(rows, withImpressions) ==
    LET n == Len(rows)
    IN  Frame(<<"Keyword">>
                  \o (IF withImpressions THEN <<"Impressions: Total Count">> ELSE <<>>)
                  \o <<"Clicks: Total Count">> \o ScoreColumns,
              [i \in 1..n |-> i],
              <<[i \in 1..n |-> Str(<<"k">>)]>>
                  \o (IF withImpressions THEN <<[i \in 1..n |-> rows[i][1]]>> ELSE <<>>)
                  \o <<[i \in 1..n |-> rows[i][2]]>>
                  \o [j \in 1..6 |-> [i \in 1..n |-> rows[i][3][j]]])

ScoreFrames(maxRows) ==
    {ScoreFrame(rows, TRUE) :
        rows \in Seqs(ImpressionsSamples \X ClicksSamples \X GapProfiles,
                      1, maxRows)}
    \cup
    {ScoreFrame(rows, FALSE) :
        rows \in Seqs({NaN} \X ClicksSamples \X GapProfiles, 1, maxRows)}

\* ---------------------------------------------------------------- operations
\* df.columns = [_clean_col(c) for c in df.columns]
CleanColumns ==
    /\ pc = "columns"
    /\ LET r == CleanAll(raw_cols)
       IN  IF r.t = "raise"
           THEN pc' = "raised" /\ outcome' = r /\ UNCHANGED clean_cols
           ELSE pc' = "cleaned" /\ clean_cols' = r.s /\ UNCHANGED outcome
    /\ UNCHANGED <<raw_cols, series, coerced, df_raw, df>>

\* coerced = _coerce_percent(series)
CallCoercePercent ==
    /\ pc = "coerce"
    /\ coerced' = CoercePercent(series)
    /\ pc' = "coerced"
    /\ UNCHANGED <<raw_cols, clean_cols, series, df_raw, df, outcome>>

\* df = prep_df(df_raw)
CallPrepDf ==
    /\ pc = "prep"
    /\ \E r \in PrepDfResults(df_raw) :
          IF r.t = "raise"
          THEN pc' = "raised" /\ outcome' = r /\ UNCHANGED df
          ELSE pc' = "returned" /\ df' = r /\ UNCHANGED outcome
    /\ UNCHANGED <<raw_cols, clean_cols, series, coerced, df_raw>>

\* The module-level script from the gate on df_raw to the call of prep_df:
\* st.stop() after the upload prompt, the frame handed on to the page, or an
\* exception out of prep_df.
Main ==
    /\ pc = "main"
    /\ IF df_raw = None \/ Empty(df_raw)
       THEN pc' = "stopped" /\ outcome' = Obj("prompt") /\ UNCHANGED df
       ELSE \E r \in PrepDfResults(df_raw) :
               IF r.t = "raise"
               THEN pc' = "raised" /\ outcome' = r /\ UNCHANGED df
               ELSE pc' = "render" /\ df' = r /\ outcome' = Obj("table")
    /\ UNCHANGED <<raw_cols, clean_cols, series, coerced, df_raw>>

\* ---------------------------------------------------------------- specifications
InitMain ==
    /\ pc = "main"
    /\ df_raw \in KeywordFrames(MaxKeywordRows) \cup {None}
    /\ raw_cols = None /\ clean_cols = None /\ series = None /\ coerced = None
    /\ df = None /\ outcome = None

Spec == InitMain /\ [][Main]_vars

InitCleanCol ==
    /\ pc = "columns"
    /\ raw_cols \in Seqs(HeaderSamples, 1, MaxHeaders)
    /\ clean_cols = None /\ series = None /\ coerced = None
    /\ df_raw = None /\ df = None /\ outcome = None

SpecCleanCol == InitCleanCol /\ [][CleanColumns]_vars

InitCoerce ==
    /\ pc = "coerce"
    /\ series \in Seqs(PercentCellSamples, 1, MaxSeries)
    /\ raw_cols = None /\ clean_cols = None /\ coerced = None
    /\ df_raw = None /\ df = None /\ outcome = None

SpecCoerce == InitCoerce /\ [][CallCoercePercent]_vars

InitPrep(frames) ==
    /\ pc = "prep"
    /\ df_raw \in frames
    /\ raw_cols = None /\ clean_cols = None /\ series = None /\ coerced = None
    /\ df = None /\ outcome = None

SpecDelta == InitPrep(DeltaFrames(MaxDeltaCols)) /\ [][CallPrepDf]_vars

SpecKeyword == InitPrep(KeywordFrames(MaxKeywordRows)) /\ [][CallPrepDf]_vars

SpecBucket == InitPrep(BucketFrames(MaxFillerRows)) /\ [][CallPrepDf]_vars

SpecScore == InitPrep(ScoreFrames(MaxScoreRows)) /\ [][CallPrepDf]_vars

\* ---------------------------------------------------------------- properties
Returned == pc = "returned"

\* The cell of column c in row i of the returned frame (missing when the
\* frame has no such column).
Out(c, i) == Get(df, c)[i]

Rows == 1..NRows(df)

Has(x) == x.t = "num"

Labels ==
    {"Ignore / Low Signal", "Ranking Opportunity", "Conversion Problem",
     "PPC Scaling Opportunity", "Defend Position"}

BucketOf(i) == Out("Bucket", i).s

\* The rule conditions as the specification words them, on the row's
\* DemandScore and its shares; a missing share satisfies no comparison.
Cond2(i) ==
    LET ds  == Out("DemandScore", i)
        imp == Out("Impressions - ASIN Share", i)
        clk == Out("Clicks - ASIN Share", i)
    IN  /\ Has(imp) /\ Has(clk)
        /\ 100 * ds.v > 55 * One /\ imp.v > 0 /\ 100 * clk.v < 85 * imp.v

Cond3(i) ==
    LET ds  == Out("DemandScore", i)
        clk == Out("Clicks - ASIN Share", i)
        pur == Out("Purchases - ASIN Share", i)
    IN  /\ Has(clk) /\ Has(pur)
        /\ 100 * ds.v > 35 * One /\ clk.v > 0 /\ 100 * pur.v < 75 * clk.v

Cond4(i) ==
    LET ds  == Out("DemandScore", i)
        imp == Out("Impressions - ASIN Share", i)
        clk == Out("Clicks - ASIN Share", i)
        pur == Out("Purchases - ASIN Share", i)
    IN  /\ Has(imp) /\ Has(clk) /\ Has(pur)
        /\ 100 * ds.v > 35 * One /\ 100 * pur.v >= 95 * clk.v
        /\ 100 * imp.v < 6 * One

Cond5(i) ==
    LET imp == Out("Impressions - ASIN Share", i)
        pur == Out("Purchases - ASIN Share", i)
    IN  /\ Has(imp) /\ Has(pur)
        /\ 100 * imp.v >= 8 * One /\ 100 * pur.v >= 6 * One

LastMatch(i) ==
    IF Cond5(i) THEN "Defend Position"
    ELSE IF Cond4(i) THEN "PPC Scaling Opportunity"
    ELSE IF Cond3(i) THEN "Conversion Problem"
    ELSE IF Cond2(i) THEN "Ranking Opportunity"
    ELSE "Ignore / Low Signal"

\* C1: every returned row's Bucket is one of the five labels and is the label
\* of the last rule, in the order 2, 3, 4, 5, whose condition holds for the
\* row, or the default when none holds.
C1_LastMatchingRuleWins ==
    Returned => \A i \in Rows : BucketOf(i) \in Labels /\ BucketOf(i) = LastMatch(i)

\* C1 witness: a row that satisfies rules 2 and 4 together was classified as
\* PPC Scaling Opportunity.
C1_Rules2And4Row ==
    Returned /\ \E i \in Rows :
        Cond2(i) /\ Cond4(i) /\ BucketOf(i) = "PPC Scaling Opportunity"

DeltaCount(cols) == Cardinality({k \in 1..Len(cols) : cols[k] = "Delta"})

DeltasBefore(cols, i) == Cardinality({k \in 1..(i - 1) : cols[k] = "Delta"})

\* The headers of the returned frame that stand where the input's stood.
OutHeaders == SubSeq(df.columns, 1, Len(df_raw.columns))

\* C2 as claimed: exactly two "Delta" headers become "Delta (CR)" and
\* "Delta (CTR)", exactly one becomes "Delta (CR)", and with none or more
\* than two the headers are unchanged; other headers and the order stay.
C2_ExactlyTwoDeltas ==
    Returned =>
        /\ Len(df.columns) >= Len(df_raw.columns)
        /\ \A i \in 1..Len(df_raw.columns) :
              LET h == df_raw.columns[i]
                  n == DeltaCount(df_raw.columns)
              IN  OutHeaders[i] =
                      IF h # "Delta" \/ n = 0 \/ n > 2 THEN h
                      ELSE IF DeltasBefore(df_raw.columns, i) = 0
                           THEN "Delta (CR)" ELSE "Delta (CTR)"

\* C2 as amended: the first "Delta" header becomes "Delta (CR)", the second,
\* if any, "Delta (CTR)", and a third or later one stays "Delta"; other
\* headers and the order stay.
C2_FirstTwoDeltas ==
    Returned =>
        /\ Len(df.columns) >= Len(df_raw.columns)
        /\ \A i \in 1..Len(df_raw.columns) :
              LET h == df_raw.columns[i]
                  b == DeltasBefore(df_raw.columns, i)
              IN  OutHeaders[i] =
                      IF h # "Delta" THEN h
                      ELSE IF b = 0 THEN "Delta (CR)"
                      ELSE IF b = 1 THEN "Delta (CTR)" ELSE "Delta"

\* C2 witness: a frame with three or more "Delta" headers came back with the
\* first two renamed and a "Delta" left.
C2_ThreeDeltasRenamed ==
    /\ Returned
    /\ DeltaCount(df_raw.columns) >= 3
    /\ \E i, j, k \in 1..Len(df_raw.columns) :
          /\ i < j /\ j < k
          /\ OutHeaders[i] = "Delta (CR)" /\ OutHeaders[j] = "Delta (CTR)"
          /\ OutHeaders[k] = "Delta"

\* A keyword cell that names a query: text that is neither empty nor "nan"
\* once trimmed.
Usable(x) ==
    x.t = "str" /\ Strip(x.s) # <<>> /\ Strip(x.s) # <<"n", "a", "n">>

\* The labels of the input rows that carry a usable keyword.
UsableLabels ==
    IF HasCol(df_raw, "Keyword")
    THEN {df_raw.index[i] : i \in {k \in 1..NRows(df_raw) :
                                      Usable(Column(df_raw, "Keyword")[k])}}
    ELSE {}

\* C3: once the script has passed the call site, an input that is absent or
\* empty, or whose rows all fail the keyword filter, has produced the upload
\* prompt, not a rendered table and not an exception.
C3_NoUsableDataSignalled ==
    (pc \in {"stopped", "render", "raised"}
        /\ (IF df_raw = None THEN TRUE
            ELSE Empty(df_raw) \/ (HasCol(df_raw, "Keyword") /\ UsableLabels = {})))
    => outcome = Obj("prompt")

\* C4: the returned rows are exactly the input rows with a usable keyword,
\* and each carries its trimmed, non-empty, non-"nan" keyword; a row without
\* a Keyword field is not returned.
C4_OnlyUsableKeywords ==
    Returned =>
        /\ Range(df.index) = UsableLabels
        /\ \A i \in Rows : HasCol(df, "Keyword") /\ Usable(Out("Keyword", i))

\* Market_Demand with missing as 0 and negatives clamped to 0.
Demand(i) ==
    LET m == Out("Market_Demand", i) IN IF Has(m) /\ m.v > 0 THEN m.v ELSE 0

MaxZero(x) == IF Has(x) /\ x.v > 0 THEN x.v ELSE 0

\* The input row behind returned row i has no demand, rate or share value.
AllMissing(i) ==
    \A j \in 1..Len(df_raw.columns) :
        df_raw.columns[j] # "Keyword" => df_raw.data[j][df.index[i]] = NaN

SortedMedian2(s) ==
    LET v == SortSeq(Finite(s), LAMBDA a, b : a.v < b.v)
        n == Len(v)
    IN  IF n % 2 = 1 THEN 2 * v[(n + 1) \div 2].v
        ELSE v[n \div 2].v + v[n \div 2 + 1].v

\* C7: with the cells coerced one by one, a column whose median is > 1.0
\* comes back with every value divided by 100, a column whose median is
\* <= 1.0 comes back as coerced, and a column without finite values comes
\* back all missing.
C7_ColumnWideDecision ==
    pc = "coerced" =>
        LET s == Apply(series, ToNumber)
        IN  /\ Len(coerced) = Len(series)
            /\ IF Finite(s) = <<>>
               THEN \A i \in 1..Len(s) : IsNa(coerced[i])
               ELSE IF SortedMedian2(s) > 2 * One
                    THEN \A i \in 1..Len(s) :
                            IF Has(s[i])
                            THEN Has(coerced[i]) /\ 100 * coerced[i].v = s[i].v
                            ELSE IsNa(coerced[i])
                    ELSE coerced = s

\* C7 witness: a column whose median is exactly 1.0, with a value above 1.0
\* in it, came back unconverted.
C7_MedianExactlyOne ==
    /\ pc = "coerced"
    /\ Finite(Apply(series, ToNumber)) # <<>>
    /\ SortedMedian2(Apply(series, ToNumber)) = 2 * One
    /\ \E i \in 1..Len(coerced) : Has(coerced[i]) /\ coerced[i].v > One
    /\ coerced = Apply(series, ToNumber)

\* A header trimmed, with each run of whitespace collapsed to one space;
\* None as the empty text.
Normalised(h) ==
    IF h = None THEN Str(<<>>) ELSE Str(CollapseWs(Strip(h.s)))

\* C8: cleaning a header list raises nothing and returns, in the same order
\* and length, each header trimmed with its whitespace runs collapsed, a
\* None header as the empty text.
C8_HeadersCleaned ==
    pc \in {"cleaned", "raised"} =>
        /\ pc = "cleaned"
        /\ Len(clean_cols) = Len(raw_cols)
        /\ \A i \in 1..Len(raw_cols) : clean_cols[i] = Normalised(raw_cols[i])

\* C9: a rule that compares a missing share never matches: without the
\* impressions share the row is not Ranking, PPC Scaling or Defend, without
\* the clicks share not Ranking, Conversion or PPC Scaling, without the
\* purchases share not Conversion, PPC Scaling or Defend; with all three
\* missing it is Ignore / Low Signal whatever its DemandScore.
C9_MissingShareNeverMatches ==
    Returned => \A i \in Rows :
        LET imp == Out("Impressions - ASIN Share", i)
            clk == Out("Clicks - ASIN Share", i)
            pur == Out("Purchases - ASIN Share", i)
        IN  /\ IsNa(imp) => BucketOf(i) \in {"Ignore / Low Signal", "Conversion Problem"}
            /\ IsNa(clk) => BucketOf(i) \in {"Ignore / Low Signal", "Defend Position"}
            /\ IsNa(pur) => BucketOf(i) \in {"Ignore / Low Signal", "Ranking Opportunity"}
            /\ (IsNa(imp) /\ IsNa(clk) /\ IsNa(pur))
                   => BucketOf(i) = "Ignore / Low Signal"

\* C9 witness: a row of DemandScore 1 whose frame has no share column at all
\* was left at Ignore / Low Signal.
C9_HighDemandNoShares ==
    /\ Returned
    /\ ~HasCol(df, "Impressions - ASIN Share")
    /\ ~HasCol(df, "Clicks - ASIN Share")
    /\ ~HasCol(df, "Purchases - ASIN Share")
    /\ \E i \in Rows :
          Out("DemandScore", i) = Num(One) /\ BucketOf(i) = "Ignore / Low Signal"

\* C10: no row satisfies rules 4 and 5 together; a row that satisfies rule 4
\* ends as PPC Scaling Opportunity and a row that satisfies rule 5 ends as
\* Defend Position, whatever its DemandScore.
C10_Rules4And5Exclusive ==
    Returned => \A i \in Rows :
        /\ ~(Cond4(i) /\ Cond5(i))
        /\ Cond4(i) => BucketOf(i) = "PPC Scaling Opportunity"
        /\ Cond5(i) => BucketOf(i) = "Defend Position"

\* C10 witness: a rule-4 row ended as PPC Scaling Opportunity in a frame
\* where a rule-5 row of DemandScore below 0.35 ended as Defend Position.
C10_ScalingBesideDefend ==
    Returned /\ \E i, j \in Rows :
        /\ Cond4(i) /\ BucketOf(i) = "PPC Scaling Opportunity"
        /\ Cond5(j) /\ 100 * Out("DemandScore", j).v < 35 * One
        /\ BucketOf(j) = "Defend Position"

====
